---- MODULE Spec2Model ----
(***************************************************************************)
(* A model of the DOMjudge command-line client: main.py (option            *)
(* resolution, the fixed sequence of operations, the table/CSV             *)
(* presentation) and domjudge.py (the record types, the REST client, the   *)
(* submissions/judgements/teams/problems join and the source download).    *)
(*                                                                         *)
(* Conventions.  Python's None is the empty tuple and a present value v is *)
(* <<v>>.  Text that the program transforms (header names, lines of the    *)
(* team file, source code) is a sequence of characters or code points;     *)
(* text it only copies (names, verdicts) is a TLA+ string.  A JSON object  *)
(* is a record, a JSON array a sequence.                                   *)
(***************************************************************************)
EXTENDS Integers, Sequences, FiniteSets, TLC

None == <<>>
Some(v) == <<v>>
Val(o) == o[1]

(***************************************************************************)
(* Bounds of the model.                                                    *)
(***************************************************************************)
\* longest submissions listing the server returns
MaxSubs == 2
\* most judgements the server lists for one submission (rejudging)
MaxJudgementsPerSub == 2

(***************************************************************************)
(* Record types (domjudge.py).  A dataclass is its declared fields, in     *)
(* order, each with the header_name of its metadata (None when _field was  *)
(* called without one).                                                    *)
(***************************************************************************)
\* _field: metadata = {'header_name': h} if h else None
_field(name, header_name) ==
    [name |-> name,
     metadata |-> IF header_name # <<>> THEN Some(header_name) ELSE None]

ContestFields ==
    << _field("id", <<"i","d">>),
       _field("long_name", <<"l","o","n","g"," ","n","a","m","e">>),
       _field("short_name", <<"s","h","o","r","t"," ","n","a","m","e">>),
       _field("start_time", <<>>),
       _field("end_time", <<>>) >>

TeamFields ==
    << _field("id", <<"i","d">>),
       _field("name", <<"n","a","m","e">>) >>

ProblemFields ==
    << _field("id", <<"i","d">>),
       _field("long_name", <<"l","o","n","g"," ","n","a","m","e">>),
       _field("short_name", <<"s","h","o","r","t"," ","n","a","m","e">>) >>

SubmissionFields ==
    << _field("id", <<"i","d">>),
       _field("team_id", <<>>),
       _field("team_name", <<"t","e","a","m"," ","n","a","m","e">>),
       _field("problem_id", <<>>),
       _field("problem_name",
              <<"p","r","o","b","l","e","m"," ","n","a","m","e">>),
       _field("language_id", <<"l","a","n","g","u","a","g","e">>),
       _field("time", <<>>),
       _field("max_run_time",
              <<"m","a","x","."," ","r","u","n"," ","t","i","m","e">>),
       _field("judgement_type_id", <<"j","u","d","g","e","m","e","n","t">>) >>

SourceCodeFields ==
    << _field("id", <<"i","d">>),
       _field("submission_id",
              <<"s","u","b","m","i","s","s","i","o","n"," ","i","d">>),
       _field("source_code", <<>>) >>

\* dataclasses.fields(item): the declared fields of the item's class
fields(item) ==
    CASE item.type = "Contest" -> ContestFields
      [] item.type = "Team" -> TeamFields
      [] item.type = "Problem" -> ProblemFields
      [] item.type = "Submission" -> SubmissionFields
      [] item.type = "SourceCode" -> SourceCodeFields

\* datetime.fromisoformat on a "YYYY-MM-DD" text, given as <<Y, M, D>>
fromisoformat(t) == [year |-> t[1], month |-> t[2], day |-> t[3]]

Contest_build_from_json(content) ==
    [type |-> "Contest",
     id |-> content.id,
     long_name |-> content.formal_name,
     short_name |-> content.shortname,
     start_time |-> fromisoformat(content.start_time),
     end_time |-> fromisoformat(content.end_time)]

Team_build_from_json(content) ==
    [type |-> "Team", id |-> content.id, name |-> content.name]

Problem_build_from_json(content) ==
    [type |-> "Problem",
     id |-> content.id,
     long_name |-> content.name,
     short_name |-> content.short_name]

Submission_build_from_json(content) ==
    [type |-> "Submission",
     id |-> content.id,
     team_id |-> content.team_id,
     team_name |-> content.team_name,
     problem_id |-> content.problem_id,
     problem_name |-> content.problem_name,
     language_id |-> content.language_id,
     time |-> fromisoformat(content.time),
     max_run_time |-> content.max_run_time,
     judgement_type_id |-> content.judgement_type_id]

(***************************************************************************)
(* base64 and text decoding of a source file.  The base64 text is the      *)
(* sequence of its 6-bit digits, the decoded bytes a sequence of 0..255,   *)
(* the text a sequence of code points.                                     *)
(***************************************************************************)
CR == 13
LF == 10

\* base64.b64decode, on unpadded input (a whole number of 4-digit groups)
RECURSIVE b64decode(_)
b64decode(digits) ==
    IF Len(digits) < 4 THEN <<>>
    ELSE LET n == ((digits[1] * 64 + digits[2]) * 64 + digits[3]) * 64
                  + digits[4]
         IN  << n \div 65536, (n \div 256) % 256, n % 256 >>
               \o b64decode(SubSeq(digits, 5, Len(digits)))

\* bytes.decode('utf-8') on bytes below 128: one code point per byte
utf8_decode(bytes) == [i \in DOMAIN bytes |-> bytes[i] % 128]

\* str.replace("\r\n", "\n"), scanning left to right
RECURSIVE replace_crlf(_)
replace_crlf(text) ==
    IF text = <<>> THEN <<>>
    ELSE IF Len(text) >= 2 /\ text[1] = CR /\ text[2] = LF
         THEN <<LF>> \o replace_crlf(SubSeq(text, 3, Len(text)))
         ELSE <<text[1]>> \o replace_crlf(Tail(text))

SourceCode_build_from_json(content) ==
    [type |-> "SourceCode",
     id |-> content.id,
     submission_id |-> content.submission_id,
     source_code |-> replace_crlf(utf8_decode(b64decode(content.source)))]

(***************************************************************************)
(* Presentation layer (main.py).                                           *)
(***************************************************************************)
LowerCase ==
    << "a","b","c","d","e","f","g","h","i","j","k","l","m",
       "n","o","p","q","r","s","t","u","v","w","x","y","z" >>
UpperCase ==
    << "A","B","C","D","E","F","G","H","I","J","K","L","M",
       "N","O","P","Q","R","S","T","U","V","W","X","Y","Z" >>

\* a header that is left in lower case
str_upper_noop(s) == s

\* str.upper: every lower-case letter becomes its capital, the rest stays
str_upper(s) ==
    [i \in DOMAIN s |->
        IF \E k \in DOMAIN LowerCase : LowerCase[k] = s[i]
        THEN UpperCase[CHOOSE k \in DOMAIN LowerCase : LowerCase[k] = s[i]]
        ELSE s[i]]

\* the fields that have metadata with a 'header_name' in it
_get_printable_fields(item) ==
    SelectSeq(fields(item), LAMBDA f : f.metadata # None)

\* one pass of the inner loop: the values of the printable fields
row_data(item) ==
    LET pf == _get_printable_fields(item)
    IN  [j \in DOMAIN pf |-> item[pf[j].name]]

\* rows after the loop of _print_table: one row per item
table_rows(items) == [i \in DOMAIN items |-> row_data(items[i])]

\* headers after the loop of _print_table: appended while i == 0 only
table_headers(items) ==
    IF items = <<>> THEN <<>>
    ELSE LET pf == _get_printable_fields(items[1])
         IN  [j \in DOMAIN pf |-> str_upper(Val(pf[j].metadata))]

\* what _print_table prints
table_output(items) ==
    IF table_headers(items) # <<>>
    THEN [text |-> "table", headers |-> table_headers(items),
          rows |-> table_rows(items)]
    ELSE [text |-> "No results retrieved.", headers |-> <<>>, rows |-> <<>>]

Min(a, b) == IF a < b THEN a ELSE b

\* the lines csv.DictWriter writes: the header, then dict(zip(headers, row))
\* of every row in the order of the field names
csv_lines(headers, rows) ==
    <<headers>> \o
    [i \in DOMAIN rows |->
        [j \in 1..Min(Len(headers), Len(rows[i])) |-> rows[i][j]]]

\* a file opened for appending keeps what it held
open_a_and_write(old, lines) == old \o lines

\* open(path, 'w') and the writes: the file holds the written lines only
open_w_and_write(old, lines) == lines

\* _print_table(items, csv_file_path) with the CSV file holding old (None
\* when there is no such file): what is printed, whether the CSV file is
\* opened for writing, and what it holds afterwards
_print_table(items, csv_file_path, old) ==
    [out |-> table_output(items),
     opened |-> csv_file_path # None,
     csv |-> IF csv_file_path # None
             THEN Some(open_w_and_write(IF old = None THEN <<>> ELSE Val(old),
                                        csv_lines(table_headers(items),
                                                  table_rows(items))))
             ELSE old]

(***************************************************************************)
(* The team file (main.py).                                                *)
(***************************************************************************)
IsSpace(c) == c = " "

RECURSIVE lstrip(_)
lstrip(line) ==
    IF line # <<>> /\ IsSpace(Head(line)) THEN lstrip(Tail(line)) ELSE line

RECURSIVE rstrip(_)
rstrip(line) ==
    IF line # <<>> /\ IsSpace(line[Len(line)])
    THEN rstrip(SubSeq(line, 1, Len(line) - 1))
    ELSE line

\* str.strip
str_strip(line) == rstrip(lstrip(line))

\* _read_teams_subset on the lines of the file: the stripped lines that are
\* not empty, as a tuple
_read_teams_subset(lines) ==
    SelectSeq([i \in DOMAIN lines |-> str_strip(lines[i])],
              LAMBDA l : Len(l) > 0)

(***************************************************************************)
(* The client (domjudge.py): indexes and the join.                         *)
(***************************************************************************)
Range(s) == {s[i] : i \in DOMAIN s}
MaxOf(S) == CHOOSE m \in S : \A x \in S : x <= m

\* {key(inst): inst for inst in instances}, with keys[i] = key(instances[i]):
\* a later instance replaces an earlier one with the same key
_build_index(instances, keys) ==
    [k \in Range(keys) |->
        instances[MaxOf({i \in DOMAIN instances : keys[i] = k})]]

\* _build_index with the default key, x.id
index_by_id(instances) ==
    _build_index(instances, [i \in DOMAIN instances |-> instances[i].id])

\* _build_index(judgements, lambda x: x['submission_id'])
index_by_submission_id(judgements) ==
    _build_index(judgements,
                 [i \in DOMAIN judgements |-> judgements[i].submission_id])

Ok(v) == [ok |-> TRUE, val |-> v, err |-> "none"]
Raise(e) == [ok |-> FALSE, val |-> <<>>, err |-> e]

\* a join that takes the team by the problem's id
_build_submission_with_judgement_swapped(content, submission_to_judgement, teams, problems) ==
    IF content.id \notin DOMAIN submission_to_judgement
       \/ content.team_id \notin DOMAIN teams
       \/ content.problem_id \notin DOMAIN problems
       \/ content.problem_id \notin DOMAIN teams
    THEN Raise("KeyError")
    ELSE Ok(Submission_build_from_json(
            [team_name |-> teams[content.problem_id].name,
             problem_name |-> problems[content.problem_id].short_name,
             max_run_time |->
                 submission_to_judgement[content.id].max_run_time,
             judgement_type_id |->
                 submission_to_judgement[content.id].judgement_type_id]
            @@ content))

\* a join that fills in an unjudged submission instead of failing
_build_submission_with_judgement_lenient(content, submission_to_judgement, teams, problems) ==
    IF content.team_id \notin DOMAIN teams
       \/ content.problem_id \notin DOMAIN problems
    THEN Raise("KeyError")
    ELSE Ok(Submission_build_from_json(
            [team_name |-> teams[content.team_id].name,
             problem_name |-> problems[content.problem_id].short_name,
             max_run_time |->
                 IF content.id \in DOMAIN submission_to_judgement
                 THEN submission_to_judgement[content.id].max_run_time
                 ELSE 0,
             judgement_type_id |->
                 IF content.id \in DOMAIN submission_to_judgement
                 THEN submission_to_judgement[content.id].judgement_type_id
                 ELSE ""]
            @@ content))

\* the closure of get_submissions, with the indexes it captures
_build_submission_with_judgement(content, submission_to_judgement, teams, problems) ==
    IF content.id \notin DOMAIN submission_to_judgement
    THEN Raise("KeyError")
    ELSE LET judgement == submission_to_judgement[content.id]
             judgement_content ==
                 [max_run_time |-> judgement.max_run_time,
                  judgement_type_id |-> judgement.judgement_type_id]
         IN  IF content.team_id \notin DOMAIN teams
             THEN Raise("KeyError")
             ELSE IF content.problem_id \notin DOMAIN problems
             THEN Raise("KeyError")
             ELSE LET team_name == teams[content.team_id].name
                      problem_short_name ==
                          problems[content.problem_id].short_name
                      \* later keys of the dict display win
                      content_expanded ==
                          [team_name |-> team_name,
                           problem_name |-> problem_short_name]
                          @@ judgement_content @@ content
                  IN  Ok(Submission_build_from_json(content_expanded))

(***************************************************************************)
(* The server: what each endpoint returns during one run of the tool.      *)
(***************************************************************************)
\* base64 text of a whole number of 3-byte groups
RECURSIVE b64encode(_)
b64encode(bytes) ==
    IF Len(bytes) < 3 THEN <<>>
    ELSE LET n == (bytes[1] * 256 + bytes[2]) * 256 + bytes[3]
         IN  << n \div 262144, (n \div 4096) % 64, (n \div 64) % 64, n % 64 >>
               \o b64encode(SubSeq(bytes, 4, Len(bytes)))

ContestJson ==
    [id |-> 1, formal_name |-> "Contest One", shortname |-> "c1",
     start_time |-> <<2021, 3, 4>>, end_time |-> <<2021, 3, 5>>]
TeamJson(i) == [id |-> i, name |-> IF i = 1 THEN "Alice" ELSE "Bob"]
ProblemJson(i) ==
    [id |-> i, name |-> IF i = 1 THEN "Apples" ELSE "Bananas",
     short_name |-> IF i = 1 THEN "A" ELSE "B"]

\* the k-th submission of a listing: ids fall along the listing
SubId(n, k) == 40 + n + 1 - k
SubmissionJson(n, k, shape) ==
    [id |-> SubId(n, k), team_id |-> shape.team_id,
     problem_id |-> shape.problem_id,
     language_id |-> IF shape.team_id = 1 THEN "cpp" ELSE "py",
     time |-> <<2021, 3, 4>>]

Verdicts == <<"WA", "AC", "TLE", "RTE">>
JudgementJson(sid, j) ==
    [id |-> 100 * j + sid, submission_id |-> sid,
     max_run_time |-> 10 * (sid - 40) + j,
     judgement_type_id |-> Verdicts[((j - 1) % Len(Verdicts)) + 1]]

\* the source of submission sid: a letter, CR LF, a lone CR, "x", LF
SourceBytes(sid) == << 97 + (sid - 40), CR, LF, CR, 120, LF >>
SourceJson(sid) ==
    [id |-> 500 + sid, submission_id |-> sid,
     source |-> b64encode(SourceBytes(sid))]

\* the judgements listing: by rising submission id, so against the order of
\* the submissions listing; shape.nj judgements for each submission
RECURSIVE JudgementsOf(_, _)
JudgementsOf(shapes, k) ==
    IF k = 0 THEN <<>>
    ELSE [j \in 1..shapes[k].nj |-> JudgementJson(SubId(Len(shapes), k), j)]
         \o JudgementsOf(shapes, k - 1)

Shapes ==
    [team_id : {1, 2}, problem_id : {1, 2},
     nj : 0..MaxJudgementsPerSub, src : BOOLEAN]

ApiOf(contests, teams, problems, shapes) ==
    [contests |-> contests, teams |-> teams, problems |-> problems,
     submissions |->
         [k \in DOMAIN shapes |-> SubmissionJson(Len(shapes), k, shapes[k])],
     judgements |-> JudgementsOf(shapes, Len(shapes)),
     sources |->
         [sid \in {SubId(Len(shapes), k) : k \in DOMAIN shapes} |->
             LET k == CHOOSE k \in DOMAIN shapes :
                          SubId(Len(shapes), k) = sid
             IN  IF shapes[k].src THEN <<SourceJson(sid)>> ELSE <<>>]]

GoodShape(t, p) == [team_id |-> t, problem_id |-> p, nj |-> 1, src |-> TRUE]

\* servers for the runs that vary the command line
SmallApis ==
    { ApiOf(c, t, <<ProblemJson(1), ProblemJson(2)>>,
            <<GoodShape(1, 2), GoodShape(2, 1)>>) :
        c \in {<<>>, <<ContestJson>>},
        t \in {<<TeamJson(2), TeamJson(1)>>} }
    \cup { ApiOf(c, <<>>, <<>>, <<>>) : c \in {<<>>, <<ContestJson>>} }

\* servers for the runs that vary the contest's data
JoinShapes == {sh \in Shapes : sh.team_id # sh.problem_id}
\* the teams and problems listings: complete, or without the team or the
\* problem that some submissions refer to
JoinListings ==
    { [teams |-> <<TeamJson(2), TeamJson(1)>>,
       problems |-> <<ProblemJson(1), ProblemJson(2)>>],
      [teams |-> <<TeamJson(2)>>,
       problems |-> <<ProblemJson(1), ProblemJson(2)>>],
      [teams |-> <<TeamJson(2), TeamJson(1)>>,
       problems |-> <<ProblemJson(2)>>] }
JoinApis ==
    { ApiOf(<<ContestJson>>, l.teams, l.problems, shapes) :
        l \in JoinListings,
        shapes \in UNION {[1..n -> JoinShapes] : n \in 0..MaxSubs} }

(***************************************************************************)
(* The command line, the config file and the team file.                    *)
(***************************************************************************)
OptStr(v) == {None, Some(v)}

CliArgvs ==
    [server : OptStr("http://dj/api/"), username : OptStr("admin"),
     passwd : OptStr("secret"),
     teams_subset_file_path : OptStr("flag_teams.txt"),
     get_contests : BOOLEAN, contest : {None, Some(1)},
     get_teams : BOOLEAN, get_problems : BOOLEAN,
     get_submissions : BOOLEAN,
     submissions_dir_path : OptStr("out"),
     csv_file_path : OptStr("out.csv")]

\* the command lines that vary the connection options, with at most the
\* teams listing asked for
ConnArgvs ==
    {a \in CliArgvs :
        /\ ~a.get_contests /\ ~a.get_problems /\ ~a.get_submissions
        /\ a.submissions_dir_path = None /\ a.csv_file_path = None}

\* the command lines that vary the operations, with every connection option
\* given or none of them
OpsArgvs ==
    {a \in CliArgvs :
        \/ /\ a.server # None /\ a.username # None /\ a.passwd # None
           /\ a.teams_subset_file_path # None
        \/ /\ a.server = None /\ a.username = None /\ a.passwd = None
           /\ a.teams_subset_file_path = None}

\* the command lines that ask for the submissions of a contest only
JoinArgvs ==
    {a \in CliArgvs :
        /\ a.server # None /\ a.username # None /\ a.passwd # None
        /\ a.teams_subset_file_path # None
        /\ ~a.get_contests /\ ~a.get_teams /\ ~a.get_problems
        /\ (a.get_submissions \/ a.submissions_dir_path # None)
        /\ a.contest # None /\ a.csv_file_path = None}

\* an option of config.cfg: absent (its section or key is not in the file),
\* or present with a value, or present without one
Absent == [present |-> FALSE, value |-> None]
Present(v) == [present |-> TRUE, value |-> v]

Configs ==
    { [base_url |-> Present(Some("http://dj/api/")),
       username |-> Present(Some("admin")),
       password |-> Present(Some("secret")),
       teams_subset_file_path |-> Present(Some("cfg_teams.txt"))],
      [base_url |-> Present(Some("http://dj/api/")),
       username |-> Present(Some("admin")),
       password |-> Present(Some("secret")),
       teams_subset_file_path |-> Present(None)],
      [base_url |-> Absent, username |-> Absent, password |-> Absent,
       teams_subset_file_path |-> Absent] }

\* what a team file holds, as str.splitlines gives it; None: no such file
TeamFiles ==
    { None,
      Some(<< <<"a">>, <<>>, <<" ", "b", " ">>, <<" ">> >>),
      Some(<< <<" ", " ">> >>),
      Some(<< <<"a", " ", "b">>, <<"a">> >>) }

(***************************************************************************)
(* State of one run of the tool.                                           *)
(***************************************************************************)
VARIABLES
    argv,        \* the options click passes to main
    api,         \* the server's data
    pc,          \* where main is
    loc,         \* main's locals: server, username, passwd,
                 \* teams_subset_file_path, teams_subset
    cfg_read,    \* the config file, once cfg.read has run
    file_reads,  \* the team files read: [path, lines]
    dj_man,      \* the DOMJudgeManager, once constructed
    gen,         \* the generator get_submissions returned
    items,       \* the records _print_table has drawn from gen
    dl,          \* locals of download_submission_files
    requests,    \* the HTTP GETs issued: [op, url]
    executed,    \* the operations begun, in order
    stdout,      \* what was printed: [op, text, headers, rows]
    csv_file,    \* the file at --csv-file-path: None or its lines
    csv_opens,   \* the operations that opened the CSV file for writing
    files,       \* the source files written: [path, text], in order
    exit         \* None while running, then [status, err]

vars ==
    << argv, api, pc, loc, cfg_read, file_reads, dj_man, gen, items, dl,
       requests, executed, stdout, csv_file, csv_opens, files, exit >>

NoGen ==
    [started |-> FALSE, contest_id |-> 0, teams |-> <<>>, problems |-> <<>>,
     submission_to_judgement |-> <<>>, content |-> <<>>, pos |-> 0]
NoDl ==
    [teams |-> <<>>, problems |-> <<>>, output_dir |-> "",
     submission |-> None, source_code |-> None]

InitRun ==
    /\ pc = "resolve"
    /\ loc = [server |-> argv.server, username |-> argv.username,
              passwd |-> argv.passwd,
              teams_subset_file_path |-> argv.teams_subset_file_path,
              teams_subset |-> None]
    /\ cfg_read = None
    /\ file_reads = <<>>
    /\ dj_man = None
    /\ gen = NoGen
    /\ items = <<>>
    /\ dl = NoDl
    /\ requests = <<>>
    /\ executed = <<>>
    /\ stdout = <<>>
    /\ csv_opens = <<>>
    /\ files = <<>>
    /\ exit = None

\* the command lines, against a few servers; the CSV file may exist before
InitCli ==
    /\ argv \in ConnArgvs \cup OpsArgvs
    /\ api \in SmallApis
    /\ csv_file \in IF argv.csv_file_path = None THEN {None}
                    ELSE {None, Some(<< <<"OLD">>, <<"old row">> >>)}
    /\ InitRun

\* the contest-scoped operations, against every server within the bounds
InitJoin ==
    /\ argv \in JoinArgvs
    /\ api \in JoinApis
    /\ csv_file = None
    /\ InitRun

Init == InitCli \/ InitJoin

(***************************************************************************)
(* main, lines 57-75: the connection parameters and the client.            *)
(***************************************************************************)
\* cfg.get(section, option): NoSectionError/NoOptionError when absent
cfg_get(cfg, option) ==
    IF cfg[option].present THEN Ok(cfg[option].value)
    ELSE Raise("configparser.Error")

\* x or cfg.get(...): cfg.get is only called when x is None
or_cfg(x, cfg, option) == IF x # None THEN Ok(x) ELSE cfg_get(cfg, option)

\* any(param is None for param in cfg_params)
needs_config(a) ==
    \/ a.server = None
    \/ a.username = None
    \/ a.passwd = None
    \/ a.teams_subset_file_path = None

\* an uncaught exception ends the process with a traceback (exit status 1);
\* click reports a BadOptionUsage as a usage error (exit status 2)
Failed(e) ==
    Some([status |-> IF e = "click.BadOptionUsage" THEN 2 ELSE 1, err |-> e])
Succeeded == Some([status |-> 0, err |-> "none"])

ResolveParams ==
    /\ pc = "resolve"
    /\ UNCHANGED << argv, api, dj_man, gen, items, dl, requests, executed,
                    stdout, csv_file, csv_opens, files >>
    /\ IF ~needs_config(argv)
       THEN /\ pc' = "construct"
            /\ UNCHANGED << loc, cfg_read, file_reads, exit >>
       ELSE \E cfg \in Configs, file \in TeamFiles :
            LET server == or_cfg(loc.server, cfg, "base_url")
                username == or_cfg(loc.username, cfg, "username")
                passwd == or_cfg(loc.passwd, cfg, "password")
                path == or_cfg(loc.teams_subset_file_path, cfg,
                               "teams_subset_file_path")
            IN  /\ cfg_read' = Some(cfg)
                /\ IF ~(server.ok /\ username.ok /\ passwd.ok /\ path.ok)
                   THEN /\ pc' = "done"
                        /\ exit' = Failed("configparser.Error")
                        /\ UNCHANGED << loc, file_reads >>
                   ELSE IF path.val = None
                   THEN /\ pc' = "construct"
                        /\ loc' = [loc EXCEPT !.server = server.val,
                                              !.username = username.val,
                                              !.passwd = passwd.val,
                                              !.teams_subset_file_path = None]
                        /\ UNCHANGED << file_reads, exit >>
                   ELSE IF file = None
                   THEN /\ pc' = "done"
                        /\ exit' = Failed("FileNotFoundError")
                        /\ loc' = [loc EXCEPT !.server = server.val,
                                              !.username = username.val,
                                              !.passwd = passwd.val,
                                              !.teams_subset_file_path =
                                                  path.val]
                        /\ UNCHANGED file_reads
                   ELSE /\ pc' = "construct"
                        /\ loc' = [loc EXCEPT
                                     !.server = server.val,
                                     !.username = username.val,
                                     !.passwd = passwd.val,
                                     !.teams_subset_file_path = path.val,
                                     !.teams_subset =
                                         Some(_read_teams_subset(Val(file)))]
                        /\ file_reads' =
                               Append(file_reads,
                                      [path |-> Val(path.val),
                                       lines |-> Val(file)])
                        /\ UNCHANGED exit

\* DOMJudgeManager.__init__: teams_subset is only set from a non-empty
\* iterable, auth only when both the user name and the password are given
DOMJudgeManager_init(base_url, username, password, teams_subset) ==
    [base_url |-> base_url,
     auth |-> IF username # None /\ password # None
              THEN Some(<<Val(username), Val(password)>>) ELSE None,
     has_teams_subset |-> teams_subset # None /\ Val(teams_subset) # <<>>,
     teams_subset |-> IF teams_subset # None THEN Range(Val(teams_subset))
                      ELSE {}]

\* lines 73-75: the client is made; str() leaves a given CSV path as it is
Construct ==
    /\ pc = "construct"
    /\ dj_man' = Some(DOMJudgeManager_init(Val(loc.server), loc.username,
                                           loc.passwd, loc.teams_subset))
    /\ pc' = "get_contests"
    /\ UNCHANGED << argv, api, loc, cfg_read, file_reads, gen, items, dl,
                    requests, executed, stdout, csv_file, csv_opens, files,
                    exit >>

(***************************************************************************)
(* The client's requests.                                                  *)
(***************************************************************************)
\* base_url + '/'.join(map(str, args)): the base and the path's segments
\* (a caller's numbers are passed through ToString, as map(str, ...) does)
_build_api_url(base_url, args) == <<base_url>> \o args

\* the server's answer to GET url
Serve(url) ==
    LET path == Tail(url)
    IN  IF Len(path) = 1 THEN api.contests
        ELSE IF Len(path) = 3
        THEN CASE path[3] = "teams" -> api.teams
               [] path[3] = "problems" -> api.problems
               [] path[3] = "submissions" -> api.submissions
               [] path[3] = "judgements" -> api.judgements
        ELSE api.sources[CHOOSE sid \in DOMAIN api.sources :
                            ToString(sid) = path[4]]

\* json.loads(requests.get(url, auth=self.auth).content.decode('utf-8'))
_get_url_content(url) == Serve(url)

contests_url(base_url) == _build_api_url(base_url, <<"contests">>)
teams_url(base_url, contest_id) ==
    _build_api_url(base_url, <<"contests", ToString(contest_id), "teams">>)
problems_url(base_url, contest_id) ==
    _build_api_url(base_url, <<"contests", ToString(contest_id), "problems">>)
submissions_url(base_url, contest_id) ==
    _build_api_url(base_url,
                   <<"contests", ToString(contest_id), "submissions">>)
judgements_url(base_url, contest_id) ==
    _build_api_url(base_url,
                   <<"contests", ToString(contest_id), "judgements">>)
source_code_url(base_url, contest_id, submission_id) ==
    _build_api_url(base_url,
                   <<"contests", ToString(contest_id), "submissions",
                     ToString(submission_id), "source-code">>)

\* the records of get_contests, get_teams, get_problems, drawn to the end
get_contests(base_url) ==
    LET content == _get_url_content(contests_url(base_url))
    IN  [i \in DOMAIN content |-> Contest_build_from_json(content[i])]
get_teams(base_url, contest_id) ==
    LET content == _get_url_content(teams_url(base_url, contest_id))
    IN  [i \in DOMAIN content |-> Team_build_from_json(content[i])]
get_problems(base_url, contest_id) ==
    LET content == _get_url_content(problems_url(base_url, contest_id))
    IN  [i \in DOMAIN content |-> Problem_build_from_json(content[i])]

Req(op, url) == [op |-> op, url |-> url]

\* get_submissions up to its yield from: run by the first next() on the
\* generator.  The requests go out in this order.
get_submissions_requests(op, base_url, contest_id) ==
    << Req(op, teams_url(base_url, contest_id)),
       Req(op, problems_url(base_url, contest_id)),
       Req(op, judgements_url(base_url, contest_id)),
       Req(op, submissions_url(base_url, contest_id)) >>

get_submissions_start(base_url, contest_id) ==
    [started |-> TRUE,
     contest_id |-> contest_id,
     teams |-> index_by_id(get_teams(base_url, contest_id)),
     problems |-> index_by_id(get_problems(base_url, contest_id)),
     submission_to_judgement |->
         index_by_submission_id(
             _get_url_content(judgements_url(base_url, contest_id))),
     content |-> _get_url_content(submissions_url(base_url, contest_id)),
     pos |-> 0]

\* the generator as next() finds it: started on the first call
Started(g, base_url) ==
    IF g.started THEN g ELSE get_submissions_start(base_url, g.contest_id)

\* a path without the problem's directory
output_file_path_flat(output_dir, problem, team, submission) ==
    << output_dir,
       << team.name, "_", ToString(submission.id), "_",
          submission.judgement_type_id, ".", submission.language_id >> >>

\* the path download_submission_files writes a submission to
output_file_path(output_dir, problem, team, submission) ==
    << output_dir, problem.short_name,
       << team.name, "_", ToString(submission.id), "_",
          submission.judgement_type_id, ".", submission.language_id >> >>

\* a check that raises something click does not report as a usage error
_assure_contest_is_set_plain_error(option_name, contest) ==
    IF contest = None THEN Raise("ValueError") ELSE Ok(contest)

\* _assure_contest_is_set
_assure_contest_is_set(option_name, contest) ==
    IF contest = None THEN Raise("click.BadOptionUsage") ELSE Ok(contest)

\* a loop that goes on with the next submission after a failure
resume_after_exception(resume) == resume

\* nothing catches an exception raised under download_submission_files:
\* it leaves the loop, the method and main
propagate_exception(resume) == "done"

(***************************************************************************)
(* main, lines 77-95: the operations.                                      *)
(***************************************************************************)
BaseUrl == Val(dj_man).base_url

\* _print_table(items, csv_file_path) run for operation op
PrintTable(op, its) ==
    LET r == _print_table(its, argv.csv_file_path, csv_file)
    IN  /\ stdout' = Append(stdout, [op |-> op] @@ r.out)
        /\ csv_file' = r.csv
        /\ csv_opens' = IF r.opened THEN Append(csv_opens, op) ELSE csv_opens

\* the exception of _assure_contest_is_set leaves main
UsageError(option_name) ==
    /\ pc' = "done"
    /\ exit' = Failed(_assure_contest_is_set(option_name, argv.contest).err)

\* a main that lists the contests whether or not --get-contests is given
GetContestsUnconditional ==
    /\ pc = "get_contests"
    /\ pc' = "get_teams"
    /\ UNCHANGED << argv, api, loc, cfg_read, file_reads, dj_man, gen, items,
                    dl, files, exit >>
    /\ executed' = Append(executed, "get_contests")
    /\ requests' =
           Append(requests, Req("get_contests", contests_url(BaseUrl)))
    /\ PrintTable("get_contests", get_contests(BaseUrl))

\* lines 77-78
GetContests ==
    /\ pc = "get_contests"
    /\ pc' = "get_teams"
    /\ UNCHANGED << argv, api, loc, cfg_read, file_reads, dj_man, gen, items,
                    dl, files, exit >>
    /\ IF argv.get_contests
       THEN /\ executed' = Append(executed, "get_contests")
            /\ requests' =
                   Append(requests, Req("get_contests", contests_url(BaseUrl)))
            /\ PrintTable("get_contests", get_contests(BaseUrl))
       ELSE UNCHANGED << executed, requests, stdout, csv_file, csv_opens >>

GetTeams ==
    /\ pc = "get_teams"
    /\ UNCHANGED << argv, api, loc, cfg_read, file_reads, dj_man, gen, items,
                    dl, files >>
    /\ IF ~argv.get_teams
       THEN /\ pc' = "get_problems"
            /\ UNCHANGED << executed, requests, stdout, csv_file, csv_opens,
                            exit >>
       ELSE IF ~_assure_contest_is_set("--get-teams", argv.contest).ok
       THEN /\ UsageError("--get-teams")
            /\ UNCHANGED << executed, requests, stdout, csv_file, csv_opens >>
       ELSE /\ pc' = "get_problems"
            /\ executed' = Append(executed, "get_teams")
            /\ requests' =
                   Append(requests,
                          Req("get_teams",
                              teams_url(BaseUrl, Val(argv.contest))))
            /\ PrintTable("get_teams", get_teams(BaseUrl, Val(argv.contest)))
            /\ UNCHANGED exit

GetProblems ==
    /\ pc = "get_problems"
    /\ UNCHANGED << argv, api, loc, cfg_read, file_reads, dj_man, gen, items,
                    dl, files >>
    /\ IF ~argv.get_problems
       THEN /\ pc' = "get_submissions"
            /\ UNCHANGED << executed, requests, stdout, csv_file, csv_opens,
                            exit >>
       ELSE IF ~_assure_contest_is_set("--get-problems", argv.contest).ok
       THEN /\ UsageError("--get-problems")
            /\ UNCHANGED << executed, requests, stdout, csv_file, csv_opens >>
       ELSE /\ pc' = "get_submissions"
            /\ executed' = Append(executed, "get_problems")
            /\ requests' =
                   Append(requests,
                          Req("get_problems",
                              problems_url(BaseUrl, Val(argv.contest))))
            /\ PrintTable("get_problems",
                          get_problems(BaseUrl, Val(argv.contest)))
            /\ UNCHANGED exit

\* line 88 up to the call of _print_table: get_submissions(contest) only
\* makes the generator
GetSubmissions ==
    /\ pc = "get_submissions"
    /\ UNCHANGED << argv, api, loc, cfg_read, file_reads, dj_man, items, dl,
                    requests, stdout, csv_file, csv_opens, files >>
    /\ IF ~argv.get_submissions
       THEN /\ pc' = "download"
            /\ UNCHANGED << executed, gen, exit >>
       ELSE IF ~_assure_contest_is_set("--get-submissions", argv.contest).ok
       THEN /\ UsageError("--get-submissions")
            /\ UNCHANGED << executed, gen >>
       ELSE /\ pc' = "print_submissions"
            /\ executed' = Append(executed, "get_submissions")
            /\ gen' = [NoGen EXCEPT !.contest_id = Val(argv.contest)]
            /\ UNCHANGED exit

\* one round of the loop of _print_table over the generator, and what
\* follows the loop once the generator is exhausted
PrintSubmissionsNext ==
    /\ pc = "print_submissions"
    /\ UNCHANGED << argv, api, loc, cfg_read, file_reads, dj_man, dl,
                    executed, files >>
    /\ LET g == Started(gen, BaseUrl)
           p == g.pos + 1
       IN  /\ requests' =
                  IF gen.started THEN requests
                  ELSE requests \o
                       get_submissions_requests("get_submissions", BaseUrl,
                                                gen.contest_id)
           /\ gen' = [g EXCEPT !.pos = p]
           /\ IF p > Len(g.content)
              THEN /\ PrintTable("get_submissions", items)
                   /\ pc' = "download"
                   /\ UNCHANGED << items, exit >>
              ELSE LET r == _build_submission_with_judgement(
                                g.content[p], g.submission_to_judgement,
                                g.teams, g.problems)
                   IN  IF r.ok
                       THEN /\ items' = Append(items, r.val)
                            /\ UNCHANGED << pc, exit, stdout, csv_file,
                                            csv_opens >>
                       ELSE /\ pc' = "done"
                            /\ exit' = Failed(r.err)
                            /\ UNCHANGED << items, stdout, csv_file,
                                            csv_opens >>

(***************************************************************************)
(* download_submission_files.                                              *)
(***************************************************************************)
\* lines 90-94 of main and 187-194 of download_submission_files: the two
\* indexes are fetched, the generator is only made
Download ==
    /\ pc = "download"
    /\ UNCHANGED << argv, api, loc, cfg_read, file_reads, dj_man, items,
                    stdout, csv_file, csv_opens, files >>
    /\ IF argv.submissions_dir_path = None
       THEN /\ pc' = "return"
            /\ UNCHANGED << executed, requests, gen, dl, exit >>
       ELSE IF ~_assure_contest_is_set("--submissions-dir-path",
                                       argv.contest).ok
       THEN /\ UsageError("--submissions-dir-path")
            /\ UNCHANGED << executed, requests, gen, dl >>
       ELSE LET c == Val(argv.contest)
            IN  /\ pc' = "download_next"
                /\ executed' = Append(executed, "download")
                /\ requests' =
                       requests \o
                       << Req("download", teams_url(BaseUrl, c)),
                          Req("download", problems_url(BaseUrl, c)) >>
                /\ dl' = [teams |-> index_by_id(get_teams(BaseUrl, c)),
                          problems |-> index_by_id(get_problems(BaseUrl, c)),
                          output_dir |-> Val(argv.submissions_dir_path),
                          submission |-> None,
                          source_code |-> None]
                /\ gen' = [NoGen EXCEPT !.contest_id = c]
                /\ UNCHANGED exit

\* an exception under the loop: where control goes, and the exit status
RaiseInLoop(e) ==
    /\ pc' = propagate_exception("download_next")
    /\ exit' = IF pc' = "done" THEN Failed(e) ELSE exit

\* the for statement draws the next submission (line 196) and the body
\* looks its problem and team up (lines 197-198)
DownloadNext ==
    /\ pc = "download_next"
    /\ UNCHANGED << argv, api, loc, cfg_read, file_reads, dj_man, items,
                    executed, stdout, csv_file, csv_opens, files >>
    /\ LET g == Started(gen, BaseUrl)
           p == g.pos + 1
       IN  /\ requests' =
                  IF gen.started THEN requests
                  ELSE requests \o
                       get_submissions_requests("download", BaseUrl,
                                                gen.contest_id)
           /\ gen' = [g EXCEPT !.pos = p]
           /\ IF p > Len(g.content)
              THEN /\ pc' = "return"
                   /\ UNCHANGED << dl, exit >>
              ELSE LET r == _build_submission_with_judgement(
                                g.content[p], g.submission_to_judgement,
                                g.teams, g.problems)
                   IN  IF ~r.ok
                       THEN /\ RaiseInLoop(r.err)
                            /\ UNCHANGED dl
                       ELSE IF r.val.problem_id \notin DOMAIN dl.problems
                               \/ r.val.team_id \notin DOMAIN dl.teams
                       THEN /\ RaiseInLoop("KeyError")
                            /\ UNCHANGED dl
                       ELSE /\ pc' = "download_fetch"
                            /\ dl' = [dl EXCEPT !.submission = Some(r.val),
                                                !.source_code = None]
                            /\ UNCHANGED exit

\* get_source_code (line 199): next() of the records of the answer
DownloadFetch ==
    /\ pc = "download_fetch"
    /\ UNCHANGED << argv, api, loc, cfg_read, file_reads, dj_man, gen, items,
                    executed, stdout, csv_file, csv_opens, files >>
    /\ LET url == source_code_url(BaseUrl, gen.contest_id,
                                  Val(dl.submission).id)
           content == _get_url_content(url)
       IN  /\ requests' = Append(requests, Req("download", url))
           /\ IF content = <<>>
              THEN /\ RaiseInLoop("StopIteration")
                   /\ UNCHANGED dl
              ELSE /\ pc' = "download_write"
                   /\ dl' = [dl EXCEPT !.source_code =
                                 Some(SourceCode_build_from_json(content[1]))]
                   /\ UNCHANGED exit

\* lines 201-209: the path, mkdir of its parent, write_text; the file
\* system may refuse either
DownloadWrite ==
    /\ pc = "download_write"
    /\ UNCHANGED << argv, api, loc, cfg_read, file_reads, dj_man, gen, items,
                    requests, executed, stdout, csv_file, csv_opens >>
    /\ \E fs_ok \in BOOLEAN :
          LET submission == Val(dl.submission)
              path == output_file_path(dl.output_dir,
                                       dl.problems[submission.problem_id],
                                       dl.teams[submission.team_id],
                                       submission)
          IN  IF fs_ok
              THEN /\ files' =
                          Append(files,
                                 [path |-> path,
                                  text |-> Val(dl.source_code).source_code])
                   /\ pc' = "download_next"
                   /\ UNCHANGED << dl, exit >>
              ELSE /\ RaiseInLoop("OSError")
                   /\ UNCHANGED << dl, files >>

\* return 0
Return ==
    /\ pc = "return"
    /\ pc' = "done"
    /\ exit' = Succeeded
    /\ UNCHANGED << argv, api, loc, cfg_read, file_reads, dj_man, gen, items,
                    dl, requests, executed, stdout, csv_file, csv_opens,
                    files >>

Next ==
    \/ ResolveParams
    \/ Construct
    \/ GetContests
    \/ GetTeams
    \/ GetProblems
    \/ GetSubmissions
    \/ PrintSubmissionsNext
    \/ Download
    \/ DownloadNext
    \/ DownloadFetch
    \/ DownloadWrite
    \/ Return

Spec == Init /\ [][Next]_vars

(***************************************************************************)
(* What the server's listings say, read off the listings themselves.       *)
(***************************************************************************)
Done == pc = "done"
Completed == pc = "done" /\ Val(exit).status = 0
Began(op) == \E i \in DOMAIN executed : executed[i] = op
Printed(op) == \E i \in DOMAIN stdout : stdout[i].op = op

HasJudgement(s) ==
    \E i \in DOMAIN api.judgements : api.judgements[i].submission_id = s.id
HasTeam(s) == \E i \in DOMAIN api.teams : api.teams[i].id = s.team_id
HasProblem(s) ==
    \E i \in DOMAIN api.problems : api.problems[i].id = s.problem_id
AllMatched ==
    \A k \in DOMAIN api.submissions :
        /\ HasJudgement(api.submissions[k])
        /\ HasTeam(api.submissions[k])
        /\ HasProblem(api.submissions[k])

TeamOf(s) == CHOOSE t \in Range(api.teams) : t.id = s.team_id
ProblemOf(s) == CHOOSE q \in Range(api.problems) : q.id = s.problem_id
\* the judgement of s; the last one listed when it was judged again
JudgementOf(s) ==
    api.judgements[MaxOf({i \in DOMAIN api.judgements :
                             api.judgements[i].submission_id = s.id})]

\* record r is submission s joined with its team, problem and judgement
Joined(r, s) ==
    /\ r.id = s.id
    /\ r.team_id = s.team_id
    /\ r.problem_id = s.problem_id
    /\ r.language_id = s.language_id
    /\ r.team_name = TeamOf(s).name
    /\ r.problem_name = ProblemOf(s).short_name
    /\ r.max_run_time = JudgementOf(s).max_run_time
    /\ r.judgement_type_id = JudgementOf(s).judgement_type_id

(***************************************************************************)
(* C1.  When every submission of the listing has a judgement, a team and a *)
(* problem, get_submissions yields one Submission per listed submission,   *)
(* in the listing's order, each carrying the name of its team, the short   *)
(* name of its problem and the run time and verdict of its judgement: the  *)
(* records drawn so far are always those of the first submissions, the     *)
(* generator does not fail, and the listing is printed from all of them.   *)
(***************************************************************************)
C1_JoinYieldsEverySubmission ==
    AllMatched =>
        /\ Len(items) <= Len(api.submissions)
        /\ \A k \in DOMAIN items : Joined(items[k], api.submissions[k])
        /\ pc \in {"download_fetch", "download_write"} =>
               Joined(Val(dl.submission), api.submissions[gen.pos])
        /\ (Done /\ Began("get_submissions")) => Printed("get_submissions")
        /\ Printed("get_submissions") => Len(items) = Len(api.submissions)

\* two submissions of different teams and problems were joined and listed,
\* one of them judged more than once
C1_Witness ==
    /\ AllMatched
    /\ Printed("get_submissions")
    /\ Len(items) >= 2
    /\ items[1].team_name # items[2].team_name
    /\ items[1].problem_name # items[2].problem_name
    /\ \E i, j \in DOMAIN api.judgements :
          i # j /\ api.judgements[i].submission_id =
                   api.judgements[j].submission_id

(***************************************************************************)
(* C2.  When a listed submission has no judgement, get_submissions fails   *)
(* with a lookup error (KeyError): the listing is never printed, a run     *)
(* that began it ends with that error, and a download over the same        *)
(* generator never returns normally.                                       *)
(***************************************************************************)
SomeUnjudged ==
    \E k \in DOMAIN api.submissions : ~HasJudgement(api.submissions[k])

C2_UnjudgedSubmissionFails ==
    SomeUnjudged =>
        /\ ~Printed("get_submissions")
        /\ \A k \in DOMAIN items : HasJudgement(api.submissions[k])
        /\ (Done /\ Began("get_submissions")) =>
               /\ Val(exit).err = "KeyError"
               /\ Val(exit).status # 0
        /\ Began("download") => (pc # "return" /\ ~Completed)

\* the second submission has no judgement: the first was yielded, then the
\* lookup failed
C2_Witness ==
    /\ SomeUnjudged
    /\ Done
    /\ Began("get_submissions")
    /\ Val(exit).err = "KeyError"
    /\ Len(items) = 1
    /\ HasTeam(api.submissions[2])
    /\ HasProblem(api.submissions[2])

(***************************************************************************)
(* C3.  When download_submission_files completes, it has written exactly   *)
(* one file per submission of the contest, the k-th at                     *)
(* {output_dir}/{problem short name}/{team name}_{id}_{verdict}.{language} *)
(* of the k-th submission, holding the decoded source fetched for that     *)
(* submission's id (CR LF turned into LF), and no other file.              *)
(***************************************************************************)
\* the text of SourceBytes(sid) with its one CR LF pair made LF
DecodedSource(sid) == << 97 + (sid - 40), LF, CR, 120, LF >>

PathOf(s) ==
    << Val(argv.submissions_dir_path), ProblemOf(s).short_name,
       << TeamOf(s).name, "_", ToString(s.id), "_",
          JudgementOf(s).judgement_type_id, ".", s.language_id >> >>

C3_DownloadWritesOneFilePerSubmission ==
    (Completed /\ Began("download")) =>
        /\ Len(files) = Len(api.submissions)
        /\ \A k \in DOMAIN files :
              /\ files[k].path = PathOf(api.submissions[k])
              /\ files[k].text = DecodedSource(api.submissions[k].id)
        /\ \A k, m \in DOMAIN files : k # m => files[k].path # files[m].path

\* a download of two submissions, of different problems, has completed
C3_Witness ==
    /\ Completed
    /\ Began("download")
    /\ Len(files) = 2
    /\ files[1].path[2] # files[2].path[2]
    /\ files[1].text # files[2].text

(***************************************************************************)
(* C4.  The presentation of an empty record sequence prints the "no        *)
(* results" message and does not write the CSV file, also when a CSV path  *)
(* was given: the operation does not open the file.                        *)
(***************************************************************************)
C4_EmptyPresentationWritesNoCsv ==
    \A i \in DOMAIN stdout :
        stdout[i].rows = <<>> =>
            /\ stdout[i].text = "No results retrieved."
            /\ \A j \in DOMAIN csv_opens : csv_opens[j] # stdout[i].op

(***************************************************************************)
(* C5.  For a non-empty sequence of records of one type, _print_table      *)
(* prints a table whose headers are the upper-cased display names of the   *)
(* fields that have one, in declared order, and one row per record, in     *)
(* input order, of those fields' values: every row is as long as the       *)
(* headers.                                                                *)
(***************************************************************************)
HeadersOf(op) ==
    CASE op = "get_contests" ->
           << <<"I","D">>, <<"L","O","N","G"," ","N","A","M","E">>,
              <<"S","H","O","R","T"," ","N","A","M","E">> >>
      [] op = "get_teams" -> << <<"I","D">>, <<"N","A","M","E">> >>
      [] op = "get_problems" ->
           << <<"I","D">>, <<"L","O","N","G"," ","N","A","M","E">>,
              <<"S","H","O","R","T"," ","N","A","M","E">> >>
      [] op = "get_submissions" ->
           << <<"I","D">>, <<"T","E","A","M"," ","N","A","M","E">>,
              <<"P","R","O","B","L","E","M"," ","N","A","M","E">>,
              <<"L","A","N","G","U","A","G","E">>,
              <<"M","A","X","."," ","R","U","N"," ","T","I","M","E">>,
              <<"J","U","D","G","E","M","E","N","T">> >>

\* the rows of a listing, from what the server lists
RowsOf(op) ==
    CASE op = "get_contests" ->
           [i \in DOMAIN api.contests |->
               << api.contests[i].id, api.contests[i].formal_name,
                  api.contests[i].shortname >>]
      [] op = "get_teams" ->
           [i \in DOMAIN api.teams |-> << api.teams[i].id, api.teams[i].name >>]
      [] op = "get_problems" ->
           [i \in DOMAIN api.problems |->
               << api.problems[i].id, api.problems[i].name,
                  api.problems[i].short_name >>]
      [] op = "get_submissions" ->
           [i \in DOMAIN api.submissions |->
               LET sub == api.submissions[i]
               IN  << sub.id, TeamOf(sub).name, ProblemOf(sub).short_name,
                      sub.language_id, JudgementOf(sub).max_run_time,
                      JudgementOf(sub).judgement_type_id >>]

C5_TableOfRecords ==
    \A i \in DOMAIN stdout :
        stdout[i].rows # <<>> =>
            /\ stdout[i].text = "table"
            /\ stdout[i].headers = HeadersOf(stdout[i].op)
            /\ stdout[i].rows = RowsOf(stdout[i].op)
            /\ \A k \in DOMAIN stdout[i].rows :
                  Len(stdout[i].rows[k]) = Len(stdout[i].headers)

\* the teams listing [Team(2, "Bob"), Team(1, "Alice")] was printed
C5_Witness ==
    \E i \in DOMAIN stdout :
        /\ stdout[i].op = "get_teams"
        /\ stdout[i].headers = << <<"I","D">>, <<"N","A","M","E">> >>
        /\ stdout[i].rows = << <<2, "Bob">>, <<1, "Alice">> >>

(***************************************************************************)
(* C6 as stated.  Every run with --get-teams and no --contest ends with a  *)
(* usage error, and no HTTP request is issued at any point of it.          *)
(***************************************************************************)
TeamsWithoutContest == argv.get_teams /\ argv.contest = None

\* (read in the claim's favour: the run is only held to the usage error once
\* its connection parameters are resolved and the client exists)
C6_NoRequestBeforeUsageError ==
    TeamsWithoutContest =>
        /\ requests = <<>>
        /\ (Done /\ dj_man # None) => Val(exit).err = "click.BadOptionUsage"

(***************************************************************************)
(* C6, amended.  A run with --get-teams and no --contest ends with a       *)
(* non-zero exit status and requests neither the teams listing nor         *)
(* anything of a later operation.  Once the connection parameters are      *)
(* resolved it ends with a usage error, having run nothing but the         *)
(* contests listing, and that only when --get-contests was given: without  *)
(* --get-contests no HTTP request is issued at all.                        *)
(***************************************************************************)
C6_UsageErrorBeforeTeamsRequest ==
    TeamsWithoutContest =>
        /\ \A i \in DOMAIN requests :
              /\ requests[i].op = "get_contests"
              /\ requests[i].url = <<Val(loc.server), "contests">>
        /\ Len(requests) <= 1
        /\ ~argv.get_contests => requests = <<>>
        /\ Done => Val(exit).status # 0
        /\ (Done /\ dj_man # None) =>
              /\ Val(exit).err = "click.BadOptionUsage"
              /\ Val(exit).status = 2
              /\ executed = IF argv.get_contests THEN <<"get_contests">>
                            ELSE <<>>

\* --get-contests --get-teams without --contest: the contests were requested
\* and printed, then the usage error ended the run
C6_Witness ==
    /\ TeamsWithoutContest
    /\ argv.get_contests
    /\ Done
    /\ Val(exit).err = "click.BadOptionUsage"
    /\ Len(requests) = 1
    /\ Printed("get_contests")

(***************************************************************************)
(* C7.  The operations run are those whose flags were given, each once and *)
(* in the order contests, teams, problems, submissions, download: at every *)
(* point the operations begun are the first of that list, and in a run     *)
(* that completes they are all of it.  Every request and every output      *)
(* belongs to an operation that was begun, so an operation whose flag was  *)
(* not given requests and prints nothing.                                  *)
(***************************************************************************)
Flag(op) ==
    CASE op = "get_contests" -> argv.get_contests
      [] op = "get_teams" -> argv.get_teams
      [] op = "get_problems" -> argv.get_problems
      [] op = "get_submissions" -> argv.get_submissions
      [] op = "download" -> argv.submissions_dir_path # None

Asked ==
    SelectSeq(<<"get_contests", "get_teams", "get_problems",
                "get_submissions", "download">>, Flag)
Listings == SelectSeq(Asked, LAMBDA op : op # "download")

IsPrefix(a, b) == Len(a) <= Len(b) /\ a = SubSeq(b, 1, Len(a))

C7_FlaggedOperationsInOrder ==
    /\ IsPrefix(executed, Asked)
    /\ \A i \in DOMAIN requests : Began(requests[i].op)
    /\ IsPrefix([i \in DOMAIN stdout |-> stdout[i].op], Listings)
    /\ Completed =>
          /\ executed = Asked
          /\ [i \in DOMAIN stdout |-> stdout[i].op] = Listings
          /\ \A k \in DOMAIN Asked :
                \E i \in DOMAIN requests : requests[i].op = Asked[k]
          /\ argv.submissions_dir_path = None => files = <<>>

\* a completed run of the contests listing, the submissions listing and the
\* download, with the teams and the problems listing not asked for
C7_Witness ==
    /\ Completed
    /\ executed = <<"get_contests", "get_submissions", "download">>
    /\ Len(stdout) = 2
    /\ files # <<>>

(***************************************************************************)
(* C8.  Whenever a team file path is given, by --teams-subset-file-path or *)
(* by the config file, the file is read and the client is constructed with *)
(* the set of its stripped, non-blank lines, whatever other connection     *)
(* options are given.                                                      *)
(***************************************************************************)
\* the path given on the command line or, failing that, in a config file
\* that was read
GivenTeamFilePath ==
    IF argv.teams_subset_file_path # None THEN argv.teams_subset_file_path
    ELSE IF cfg_read # None /\ Val(cfg_read).teams_subset_file_path.present
    THEN Val(cfg_read).teams_subset_file_path.value
    ELSE None

RECURSIVE Stripped(_)
Stripped(line) ==
    IF line = <<>> THEN line
    ELSE IF Head(line) = " " THEN Stripped(Tail(line))
    ELSE IF line[Len(line)] = " " THEN Stripped(SubSeq(line, 1, Len(line) - 1))
    ELSE line

C8_TeamFileAlwaysRead ==
    (dj_man # None /\ GivenTeamFilePath # None) =>
        /\ Len(file_reads) = 1
        /\ file_reads[1].path = Val(GivenTeamFilePath)
        /\ Val(dj_man).teams_subset =
               {Stripped(l) : l \in Range(file_reads[1].lines)} \ {<<>>}

(***************************************************************************)
(* C9.  download_submission_files handles the submissions one at a time,   *)
(* in the listing's order: the sources fetched and the files written are   *)
(* always those of the first submissions, the k-th file is written before  *)
(* the (k+1)-th source is fetched, and a failure on a submission ends the  *)
(* operation: nothing is fetched or written for a later one, and the files *)
(* of the earlier ones stay.                                               *)
(***************************************************************************)
\* the submissions whose source was requested, in the order of the requests
SourceRequests ==
    SelectSeq(requests, LAMBDA r : Len(r.url) = 6 /\ r.url[6] = "source-code")

C9_DownloadStopsAtFirstFailure ==
    /\ Len(SourceRequests) <= Len(api.submissions)
    /\ \A k \in DOMAIN SourceRequests :
          SourceRequests[k].url[5] = ToString(api.submissions[k].id)
    /\ Len(files) <= Len(SourceRequests)
    /\ Len(SourceRequests) <= Len(files) + 1
    /\ \A k \in DOMAIN files :
          files[k].path[3][3] = ToString(api.submissions[k].id)
    /\ (Done /\ Began("download") /\ Val(exit).status # 0) =>
          /\ gen.pos \in DOMAIN api.submissions
          /\ Len(files) = gen.pos - 1
          /\ Len(SourceRequests) \in {gen.pos - 1, gen.pos}

\* the second submission failed after the file of the first was written
C9_Witness ==
    /\ Done
    /\ Began("download")
    /\ Val(exit).status # 0
    /\ Len(files) = 1
    /\ gen.pos = 2
    /\ Len(api.submissions) >= 2

(***************************************************************************)
(* C10.  With --csv-file-path, every listing run opens the one CSV file    *)
(* and overwrites it: whenever a listing has been written, the file holds  *)
(* the header and the rows of the last listing run and nothing else, so    *)
(* after a run of several listings the rows of the earlier ones are gone.  *)
(***************************************************************************)
LastListing == stdout[Len(stdout)].op

C10_CsvHoldsLastListing ==
    /\ csv_opens = IF argv.csv_file_path # None
                   THEN [i \in DOMAIN stdout |-> stdout[i].op] ELSE <<>>
    /\ (argv.csv_file_path # None /\ stdout # <<>>) =>
          /\ csv_file # None
          /\ Val(csv_file) =
                 << IF RowsOf(LastListing) # <<>> THEN HeadersOf(LastListing)
                    ELSE <<>> >>
                 \o RowsOf(LastListing)

\* a completed run of the contests and the teams listing, both with rows,
\* over a CSV file that existed before
C10_Witness ==
    /\ Completed
    /\ argv.csv_file_path # None
    /\ Len(stdout) >= 2
    /\ stdout[1].rows # <<>>
    /\ LastListing = "get_teams"
    /\ stdout[Len(stdout)].rows # <<>>
    /\ Len(Val(csv_file)) = 1 + Len(api.teams)

====
